---- MODULE Spec2Model ----
(***************************************************************************)
(* State-machine model of the lockedin ring-buffer queues:                 *)
(*   SPSCQ  (include/lockedin/spmc_queue.hpp, second half of the file),    *)
(*   MPSCQ  (include/lockedin/mpsc_queue.hpp),                             *)
(*   SPMCQ / SPMCProducer / SPMCConsumer (include/lockedin/spmc_queue.hpp).*)
(* Every access to shared memory (an atomic load or store, a slot read or  *)
(* write) is one step of the thread that performs it; computations on      *)
(* locals are folded into the shared access that precedes them.            *)
(***************************************************************************)
EXTENDS Integers, Sequences, FiniteSets, TLC

VARIABLES
    \* ---- SPSCQ ----
    s_items,      \* items_[0..capacity_-1]
    s_readIdx,    \* readIdx_  (consumer cursor)
    s_writeIdx,   \* writeIdx_ (producer cursor)
    s_prod,       \* the producer thread: position in push and its locals
    s_cons,       \* the consumer thread: position in pop and its locals
    s_popped,     \* history: the values returned by successful pops, in order
    \* ---- MPSCQ ----
    m_sequence,   \* buffer_[i].sequence
    m_value,      \* buffer_[i].value
    m_head,       \* head_
    m_tail,       \* tail_
    m_prod,       \* the producer threads: position in emplace_impl and locals
    m_cons,       \* the consumer thread: position in pop_impl and locals
                  \* (callPushed: pushes that had returned true when the pop
                  \* in progress was called)
    m_pushed,     \* history: values whose push returned true, in return order
    m_claimed,    \* history: values in the order their pushes won the CAS
    m_popped,     \* history: the values returned by successful pops, in order
    \* ---- SPMCQ ----
    q_items,      \* items_[i] = (data, version)
    q_mWriteIndex,\* mWriteIndex
    q_mReadIndex, \* mReadIndex (the cursor consumers read)
    q_prod,       \* the SPMCProducer handle and its thread (n: pushes completed;
                  \* total: the number of values the thread pushes)
    q_cons,       \* the SPMCConsumer handles and their threads (callN: pushes
                  \* completed when the pop in progress was called)
    q_hist,       \* history, per consumer: the pushes completed (madeAt) and
                  \* begun (begunAt) when the handle was made, the
                  \* values popped since it was made or last respawned, whether
                  \* a pop ever raised Overlapped, and the pushes completed at
                  \* its last respawn (base, -1 if none)
    \* ---- constructors ----
    k_ctor,       \* a constructor call: the queue type, the capacity argument,
                  \* the position in the constructor and what it has set up
    \* ---- a thread that calls MPSCQ::size() ----
    m_obs         \* its position in size(), the head it loaded and the value
                  \* its last call returned

spscVars == <<s_items, s_readIdx, s_writeIdx, s_prod, s_cons, s_popped>>
mpscVars == <<m_sequence, m_value, m_head, m_tail, m_prod, m_cons,
              m_pushed, m_claimed, m_popped>>
spmcVars == <<q_items, q_mWriteIndex, q_mReadIndex, q_prod, q_cons, q_hist>>
ctorVars == <<k_ctor>>
obsVars == <<m_obs>>
vars == <<spscVars, mpscVars, spmcVars, ctorVars, obsVars>>

\* i & (capacity - 1) for a power-of-two capacity and i >= 0
Mask(i, capacity) == i % capacity

\* width of size_t in the model (64 in the build)
WordBits == 8
\* a size_t result: unsigned arithmetic wraps modulo 2^WordBits
SizeT(x) == x % (2 ^ WordBits)

(***************************************************************************)
(*                                SPSCQ                                    *)
(***************************************************************************)

\* capacity_ of the queue under test
SpscCapacity == 4
\* number of values the producer thread pushes (0 .. Iterations-1)
Iterations == 6

SpscInit ==
    /\ s_items = [i \in 0..(SpscCapacity - 1) |-> 0]
    /\ s_readIdx = 0
    /\ s_writeIdx = 0
    /\ s_prod = [pc |-> "idle", writeIdx |-> 0, nextWriteIdx |-> 0, i |-> 0,
                 ret |-> "none"]
    /\ s_cons = [pc |-> "idle", readIdx |-> 0, item |-> 0, ret |-> "none"]
    /\ s_popped = <<>>

\* push, line 373: the producer thread calls push(i) and loads its own cursor
SpscPushLoadWrite ==
    /\ s_prod.pc = "idle"
    /\ s_prod.i < Iterations
    /\ s_prod' = [s_prod EXCEPT !.pc = "loadRead", !.writeIdx = s_writeIdx,
                                !.ret = "none"]
    /\ UNCHANGED <<s_items, s_readIdx, s_writeIdx, s_cons, s_popped>>
    /\ UNCHANGED <<mpscVars, spmcVars, ctorVars, obsVars>>

\* a push that lost its full test
SpscPushFull_Dropped(nextWriteIdx, readIdx) == FALSE

\* a full test that refuses one slot early
SpscPushFull_OneEarly(nextWriteIdx, readIdx) ==
    nextWriteIdx = readIdx \/ Mask(nextWriteIdx + 1, SpscCapacity) = readIdx

\* the full test of push, lines 376-379, on the producer's loaded cursors
SpscPushFull(nextWriteIdx, readIdx) == nextWriteIdx = readIdx

\* a push that, when full, loads its cursor again and retries instead of
\* returning false
SpscPushLoadRead_Retry ==
    /\ s_prod.pc = "loadRead"
    /\ LET nextWriteIdx == Mask(s_prod.writeIdx + 1, SpscCapacity)
       IN IF SpscPushFull(nextWriteIdx, s_readIdx)
          THEN s_prod' = [s_prod EXCEPT !.writeIdx = s_writeIdx,
                                        !.nextWriteIdx = nextWriteIdx]
          ELSE s_prod' = [s_prod EXCEPT !.pc = "store",
                                        !.nextWriteIdx = nextWriteIdx]
    /\ UNCHANGED <<s_items, s_readIdx, s_writeIdx, s_cons, s_popped>>
    /\ UNCHANGED <<mpscVars, spmcVars, ctorVars, obsVars>>

\* push, lines 374-379: load the consumer cursor; return false when full
SpscPushLoadRead ==
    /\ s_prod.pc = "loadRead"
    /\ LET nextWriteIdx == Mask(s_prod.writeIdx + 1, SpscCapacity)
       IN IF SpscPushFull(nextWriteIdx, s_readIdx)
          THEN s_prod' = [s_prod EXCEPT !.pc = "idle", !.ret = "false"]
          ELSE s_prod' = [s_prod EXCEPT !.pc = "store",
                                        !.nextWriteIdx = nextWriteIdx]
    /\ UNCHANGED <<s_items, s_readIdx, s_writeIdx, s_cons, s_popped>>
    /\ UNCHANGED <<mpscVars, spmcVars, ctorVars, obsVars>>

\* push, line 381: items_[writeIdx] = item
SpscPushStore ==
    /\ s_prod.pc = "store"
    /\ s_items' = [s_items EXCEPT ![s_prod.writeIdx] = s_prod.i]
    /\ s_prod' = [s_prod EXCEPT !.pc = "publish"]
    /\ UNCHANGED <<s_readIdx, s_writeIdx, s_cons, s_popped>>
    /\ UNCHANGED <<mpscVars, spmcVars, ctorVars, obsVars>>

\* a publish that advances the write cursor twice
SpscPushPublish_Twice ==
    /\ s_prod.pc = "publish"
    /\ s_writeIdx' = Mask(s_prod.nextWriteIdx + 1, SpscCapacity)
    /\ s_prod' = [s_prod EXCEPT !.pc = "idle", !.ret = "true", !.i = @ + 1]
    /\ UNCHANGED <<s_items, s_readIdx, s_cons, s_popped>>
    /\ UNCHANGED <<mpscVars, spmcVars, ctorVars, obsVars>>

\* push, lines 382-384: publish the new write cursor and return true; the
\* producer thread moves on to its next value
SpscPushPublish ==
    /\ s_prod.pc = "publish"
    /\ s_writeIdx' = s_prod.nextWriteIdx
    /\ s_prod' = [s_prod EXCEPT !.pc = "idle", !.ret = "true", !.i = @ + 1]
    /\ UNCHANGED <<s_items, s_readIdx, s_cons, s_popped>>
    /\ UNCHANGED <<mpscVars, spmcVars, ctorVars, obsVars>>

\* pop, line 418: the consumer thread calls pop(item) and loads its own cursor
SpscPopLoadRead ==
    /\ s_cons.pc = "idle"
    /\ s_cons' = [s_cons EXCEPT !.pc = "loadWrite", !.readIdx = s_readIdx,
                                !.ret = "none"]
    /\ UNCHANGED <<s_items, s_readIdx, s_writeIdx, s_prod, s_popped>>
    /\ UNCHANGED <<mpscVars, spmcVars, ctorVars, obsVars>>

\* an empty test that never sees a value
SpscPopEmpty_Always(readIdx, writeIdx) == TRUE

\* an empty test that always sees a value
SpscPopEmpty_Never(readIdx, writeIdx) == FALSE

\* the empty test of pop, lines 421-422, on the consumer's loaded cursors
SpscPopEmpty(readIdx, writeIdx) == readIdx = writeIdx

\* a pop that clears the caller's variable when it finds the queue empty
SpscPopLoadWrite_ClearsOut ==
    /\ s_cons.pc = "loadWrite"
    /\ IF SpscPopEmpty(s_cons.readIdx, s_writeIdx)
       THEN s_cons' = [s_cons EXCEPT !.pc = "idle", !.ret = "false", !.item = 0]
       ELSE s_cons' = [s_cons EXCEPT !.pc = "move"]
    /\ UNCHANGED <<s_items, s_readIdx, s_writeIdx, s_prod, s_popped>>
    /\ UNCHANGED <<mpscVars, spmcVars, ctorVars, obsVars>>

\* pop, lines 419-422: load the producer cursor; return false when empty
SpscPopLoadWrite ==
    /\ s_cons.pc = "loadWrite"
    /\ IF SpscPopEmpty(s_cons.readIdx, s_writeIdx)
       THEN s_cons' = [s_cons EXCEPT !.pc = "idle", !.ret = "false"]
       ELSE s_cons' = [s_cons EXCEPT !.pc = "move"]
    /\ UNCHANGED <<s_items, s_readIdx, s_writeIdx, s_prod, s_popped>>
    /\ UNCHANGED <<mpscVars, spmcVars, ctorVars, obsVars>>

\* pop, line 424: item = std::move(items_[readIdx]) (a moved-from int keeps
\* its value)
SpscPopMove ==
    /\ s_cons.pc = "move"
    /\ s_cons' = [s_cons EXCEPT !.pc = "publish", !.item = s_items[s_cons.readIdx]]
    /\ UNCHANGED <<s_items, s_readIdx, s_writeIdx, s_prod, s_popped>>
    /\ UNCHANGED <<mpscVars, spmcVars, ctorVars, obsVars>>

\* pop, lines 426-429: publish the new read cursor and return true
SpscPopPublish ==
    /\ s_cons.pc = "publish"
    /\ s_readIdx' = Mask(s_cons.readIdx + 1, SpscCapacity)
    /\ s_cons' = [s_cons EXCEPT !.pc = "idle", !.ret = "true"]
    /\ s_popped' = Append(s_popped, s_cons.item)
    /\ UNCHANGED <<s_items, s_writeIdx, s_prod>>
    /\ UNCHANGED <<mpscVars, spmcVars, ctorVars, obsVars>>

\* a size() that forgot the mask
SpscSize_NoMask(readIdx, writeIdx) == SizeT(writeIdx - readIdx)

\* full(), lines 440-446, on the cursor values it loads
SpscFull(writeIdx, readIdx) == Mask(writeIdx + 1, SpscCapacity) = readIdx
\* an empty() that tests for one value left
SpscEmpty_OneLeft(readIdx, writeIdx) == Mask(readIdx + 1, SpscCapacity) = writeIdx

\* empty(), lines 448-453
SpscEmpty(readIdx, writeIdx) == readIdx = writeIdx
\* size(), lines 455-461: (writeIdx - readIdx) & (capacity_ - 1) on size_t
SpscSize(readIdx, writeIdx) == Mask(SizeT(writeIdx - readIdx), SpscCapacity)

\* the steps of push and the steps of pop
SpscPushStep ==
    \/ SpscPushLoadWrite
    \/ SpscPushLoadRead
    \/ SpscPushStore
    \/ SpscPushPublish

SpscPopStep ==
    \/ SpscPopLoadRead
    \/ SpscPopLoadWrite
    \/ SpscPopMove
    \/ SpscPopPublish

SpscNext ==
    \/ SpscPushLoadWrite
    \/ SpscPushLoadRead
    \/ SpscPushStore
    \/ SpscPushPublish
    \/ SpscPopLoadRead
    \/ SpscPopLoadWrite
    \/ SpscPopMove
    \/ SpscPopPublish

(***************************************************************************)
(*                                MPSCQ                                    *)
(***************************************************************************)

\* capacity_ of the queue under test
MpscCapacity == 2
\* the producer threads (pid)
MpscProducers == {0, 1}
\* number of values each producer thread pushes
PerProducer == 2

\* the value producer pid pushes in its i-th iteration (example, line 29)
MpscValue(pid, i) == pid * 100 + i

MpscInit ==
    /\ m_sequence = [i \in 0..(MpscCapacity - 1) |-> i]
    /\ m_value = [i \in 0..(MpscCapacity - 1) |-> 0]
    /\ m_head = 0
    /\ m_tail = 0
    /\ m_prod = [p \in MpscProducers |->
                    [pc |-> "idle", pos |-> 0, i |-> 0, ret |-> "none"]]
    /\ m_cons = [pc |-> "idle", pos |-> 0, out |-> 0, ret |-> "none",
                 callPushed |-> 0]
    /\ m_pushed = <<>>
    /\ m_claimed = <<>>
    /\ m_popped = <<>>

\* a push that starts its claim loop at position 0 instead of head_
MpscPushLoadHead_Zero(p) ==
    /\ m_prod[p].pc = "idle"
    /\ m_prod[p].i < PerProducer
    /\ m_prod' = [m_prod EXCEPT ![p].pc = "loadSeq", ![p].pos = 0,
                                ![p].ret = "none"]
    /\ UNCHANGED <<m_sequence, m_value, m_head, m_tail, m_cons,
                   m_pushed, m_claimed, m_popped>>
    /\ UNCHANGED <<spscVars, spmcVars, ctorVars, obsVars>>

\* emplace_impl, line 91: pos = head_.load()
MpscPushLoadHead(p) ==
    /\ m_prod[p].pc = "idle"
    /\ m_prod[p].i < PerProducer
    /\ m_prod' = [m_prod EXCEPT ![p].pc = "loadSeq", ![p].pos = m_head,
                                ![p].ret = "none"]
    /\ UNCHANGED <<m_sequence, m_value, m_head, m_tail, m_cons,
                   m_pushed, m_claimed, m_popped>>
    /\ UNCHANGED <<spscVars, spmcVars, ctorVars, obsVars>>

\* a diff that is off by one
MpscPushDiff_OffByOne(seq, pos) == seq - (pos + 1)

\* emplace_impl, lines 98-99: diff = seq - pos, signed
MpscPushDiff(seq, pos) == seq - pos

\* a push that does not look at the cell's sequence and always goes on to
\* claim the position
MpscPushLoadSeq_NoWait(p) ==
    /\ m_prod[p].pc = "loadSeq"
    /\ m_prod' = [m_prod EXCEPT ![p].pc = "cas"]
    /\ UNCHANGED <<m_sequence, m_value, m_head, m_tail, m_cons,
                   m_pushed, m_claimed, m_popped>>
    /\ UNCHANGED <<spscVars, spmcVars, ctorVars, obsVars>>

\* a push that waits for room: when diff < 0 it loads head_ again and loops
\* instead of returning false
MpscPushLoadSeq_Spin(p) ==
    /\ m_prod[p].pc = "loadSeq"
    /\ LET pos == m_prod[p].pos
           diff == MpscPushDiff(m_sequence[Mask(pos, MpscCapacity)], pos)
       IN m_prod' = [m_prod EXCEPT
              ![p].pc = IF diff = 0 THEN "cas" ELSE "reload"]
    /\ UNCHANGED <<m_sequence, m_value, m_head, m_tail, m_cons,
                   m_pushed, m_claimed, m_popped>>
    /\ UNCHANGED <<spscVars, spmcVars, ctorVars, obsVars>>

\* emplace_impl, lines 95-116: load the cell's sequence and branch on diff
MpscPushLoadSeq(p) ==
    /\ m_prod[p].pc = "loadSeq"
    /\ LET pos == m_prod[p].pos
           diff == MpscPushDiff(m_sequence[Mask(pos, MpscCapacity)], pos)
       IN m_prod' = [m_prod EXCEPT
              ![p].pc = IF diff = 0 THEN "cas"
                        ELSE IF diff < 0 THEN "idle" ELSE "reload",
              ![p].ret = IF diff < 0 THEN "false" ELSE "none"]
    /\ UNCHANGED <<m_sequence, m_value, m_head, m_tail, m_cons,
                   m_pushed, m_claimed, m_popped>>
    /\ UNCHANGED <<spscVars, spmcVars, ctorVars, obsVars>>

\* a claim of position pos by a plain store to head_, with no comparison
MpscPushCas_PlainStore(p) ==
    /\ m_prod[p].pc = "cas"
    /\ m_head' = m_prod[p].pos + 1
    /\ m_prod' = [m_prod EXCEPT ![p].pc = "storeValue"]
    /\ m_claimed' = Append(m_claimed, MpscValue(p, m_prod[p].i))
    /\ UNCHANGED <<m_sequence, m_value, m_tail, m_cons, m_pushed, m_popped>>
    /\ UNCHANGED <<spscVars, spmcVars, ctorVars, obsVars>>

\* emplace_impl, lines 103-107: head_.compare_exchange_weak(pos, pos + 1).
\* Success claims position pos and leaves the loop; failure (head_ differs, or
\* the weak exchange fails spuriously) reloads pos from head_ and loops.
MpscPushCas(p) ==
    /\ m_prod[p].pc = "cas"
    /\ \/ /\ m_head = m_prod[p].pos
          /\ m_head' = m_prod[p].pos + 1
          /\ m_prod' = [m_prod EXCEPT ![p].pc = "storeValue"]
          /\ m_claimed' = Append(m_claimed, MpscValue(p, m_prod[p].i))
       \/ /\ m_head # m_prod[p].pos
          /\ m_prod' = [m_prod EXCEPT ![p].pc = "loadSeq", ![p].pos = m_head]
          /\ UNCHANGED <<m_head, m_claimed>>
       \/ /\ m_head = m_prod[p].pos
          /\ m_prod' = [m_prod EXCEPT ![p].pc = "loadSeq"]
          /\ UNCHANGED <<m_head, m_claimed>>
    /\ UNCHANGED <<m_sequence, m_value, m_tail, m_cons, m_pushed, m_popped>>
    /\ UNCHANGED <<spscVars, spmcVars, ctorVars, obsVars>>

\* emplace_impl, line 115: diff > 0, pos = head_.load() and loop
MpscPushReload(p) ==
    /\ m_prod[p].pc = "reload"
    /\ m_prod' = [m_prod EXCEPT ![p].pc = "loadSeq", ![p].pos = m_head]
    /\ UNCHANGED <<m_sequence, m_value, m_head, m_tail, m_cons,
                   m_pushed, m_claimed, m_popped>>
    /\ UNCHANGED <<spscVars, spmcVars, ctorVars, obsVars>>

\* emplace_impl, line 119: cell->value = value
MpscPushStoreValue(p) ==
    /\ m_prod[p].pc = "storeValue"
    /\ m_value' = [m_value EXCEPT ![Mask(m_prod[p].pos, MpscCapacity)] =
                                      MpscValue(p, m_prod[p].i)]
    /\ m_prod' = [m_prod EXCEPT ![p].pc = "storeSeq"]
    /\ UNCHANGED <<m_sequence, m_head, m_tail, m_cons,
                   m_pushed, m_claimed, m_popped>>
    /\ UNCHANGED <<spscVars, spmcVars, ctorVars, obsVars>>

\* emplace_impl, lines 120-121: publish cell->sequence = pos + 1, return true;
\* the producer thread moves on to its next value
MpscPushStoreSeq(p) ==
    /\ m_prod[p].pc = "storeSeq"
    /\ m_sequence' = [m_sequence EXCEPT ![Mask(m_prod[p].pos, MpscCapacity)] =
                                            m_prod[p].pos + 1]
    /\ m_pushed' = Append(m_pushed, MpscValue(p, m_prod[p].i))
    /\ m_prod' = [m_prod EXCEPT ![p].pc = "idle", ![p].ret = "true",
                                ![p].i = @ + 1]
    /\ UNCHANGED <<m_value, m_head, m_tail, m_cons, m_claimed, m_popped>>
    /\ UNCHANGED <<spscVars, spmcVars, ctorVars, obsVars>>

\* pop_impl, line 126: pos = tail_.load()
MpscPopLoadTail ==
    /\ m_cons.pc = "idle"
    /\ m_cons' = [m_cons EXCEPT !.pc = "loadSeq", !.pos = m_tail, !.ret = "none",
                                !.callPushed = Len(m_pushed)]
    /\ UNCHANGED <<m_sequence, m_value, m_head, m_tail, m_prod,
                   m_pushed, m_claimed, m_popped>>
    /\ UNCHANGED <<spscVars, spmcVars, ctorVars, obsVars>>

\* a diff that forgot the + 1
MpscPopDiff_NoPlusOne(seq, pos) == seq - pos
\* a diff that expects the sequence one further on
MpscPopDiff_PlusTwo(seq, pos) == seq - (pos + 2)

\* pop_impl, lines 130-131: diff = seq - (pos + 1), signed
MpscPopDiff(seq, pos) == seq - (pos + 1)

\* a pop that moves the cell's value into the caller's variable before it
\* looks at the sequence
MpscPopLoadSeq_TakesCell ==
    /\ m_cons.pc = "loadSeq"
    /\ IF MpscPopDiff(m_sequence[Mask(m_cons.pos, MpscCapacity)], m_cons.pos) < 0
       THEN m_cons' = [m_cons EXCEPT !.pc = "idle", !.ret = "false",
                                     !.callPushed = 0,
                                     !.out = m_value[Mask(m_cons.pos, MpscCapacity)]]
       ELSE m_cons' = [m_cons EXCEPT !.pc = "move"]
    /\ UNCHANGED <<m_sequence, m_value, m_head, m_tail, m_prod,
                   m_pushed, m_claimed, m_popped>>
    /\ UNCHANGED <<spscVars, spmcVars, ctorVars, obsVars>>

\* pop_impl, lines 127-134: load the cell's sequence; return false if diff < 0
MpscPopLoadSeq ==
    /\ m_cons.pc = "loadSeq"
    /\ IF MpscPopDiff(m_sequence[Mask(m_cons.pos, MpscCapacity)], m_cons.pos) < 0
       THEN m_cons' = [m_cons EXCEPT !.pc = "idle", !.ret = "false",
                                     !.callPushed = 0]
       ELSE m_cons' = [m_cons EXCEPT !.pc = "move"]
    /\ UNCHANGED <<m_sequence, m_value, m_head, m_tail, m_prod,
                   m_pushed, m_claimed, m_popped>>
    /\ UNCHANGED <<spscVars, spmcVars, ctorVars, obsVars>>

\* pop_impl, line 136: out = std::move(cell->value)
MpscPopMove ==
    /\ m_cons.pc = "move"
    /\ m_cons' = [m_cons EXCEPT !.pc = "storeSeq",
                                !.out = m_value[Mask(m_cons.pos, MpscCapacity)]]
    /\ UNCHANGED <<m_sequence, m_value, m_head, m_tail, m_prod,
                   m_pushed, m_claimed, m_popped>>
    /\ UNCHANGED <<spscVars, spmcVars, ctorVars, obsVars>>

\* a reclaim that hands the cell back one sequence number too far on
MpscPopStoreSeq_OffByOne ==
    /\ m_cons.pc = "storeSeq"
    /\ m_sequence' = [m_sequence EXCEPT ![Mask(m_cons.pos, MpscCapacity)] =
                                            m_cons.pos + MpscCapacity + 1]
    /\ m_cons' = [m_cons EXCEPT !.pc = "storeTail"]
    /\ UNCHANGED <<m_value, m_head, m_tail, m_prod,
                   m_pushed, m_claimed, m_popped>>
    /\ UNCHANGED <<spscVars, spmcVars, ctorVars, obsVars>>

\* pop_impl, line 137: cell->sequence = pos + capacity_
MpscPopStoreSeq ==
    /\ m_cons.pc = "storeSeq"
    /\ m_sequence' = [m_sequence EXCEPT ![Mask(m_cons.pos, MpscCapacity)] =
                                            m_cons.pos + MpscCapacity]
    /\ m_cons' = [m_cons EXCEPT !.pc = "storeTail"]
    /\ UNCHANGED <<m_value, m_head, m_tail, m_prod,
                   m_pushed, m_claimed, m_popped>>
    /\ UNCHANGED <<spscVars, spmcVars, ctorVars, obsVars>>

\* a pop that returns without advancing tail_
MpscPopStoreTail_NoAdvance ==
    /\ m_cons.pc = "storeTail"
    /\ m_tail' = m_cons.pos
    /\ m_cons' = [m_cons EXCEPT !.pc = "idle", !.ret = "true", !.callPushed = 0]
    /\ m_popped' = Append(m_popped, m_cons.out)
    /\ UNCHANGED <<m_sequence, m_value, m_head, m_prod, m_pushed, m_claimed>>
    /\ UNCHANGED <<spscVars, spmcVars, ctorVars, obsVars>>

\* pop_impl, lines 138-139: tail_ = pos + 1, return true
MpscPopStoreTail ==
    /\ m_cons.pc = "storeTail"
    /\ m_tail' = m_cons.pos + 1
    /\ m_cons' = [m_cons EXCEPT !.pc = "idle", !.ret = "true", !.callPushed = 0]
    /\ m_popped' = Append(m_popped, m_cons.out)
    /\ UNCHANGED <<m_sequence, m_value, m_head, m_prod, m_pushed, m_claimed>>
    /\ UNCHANGED <<spscVars, spmcVars, ctorVars, obsVars>>

\* size(), lines 66-71: head - tail on size_t
MpscSize(head, tail) == SizeT(head - tail)

\* empty(), lines 55-58, and full(), lines 60-63, on the value size() returned
MpscEmpty(size) == size = 0
MpscFull(size) == size >= MpscCapacity

\* a thread that has not called size() yet
MpscObsInit == m_obs = [pc |-> "idle", head |-> 0, size |-> 0]

\* size(), line 68: head = head_.load()
MpscSizeLoadHead ==
    /\ m_obs.pc = "idle"
    /\ m_obs' = [pc |-> "loadTail", head |-> m_head, size |-> 0]
    /\ UNCHANGED <<spscVars, mpscVars, spmcVars, ctorVars>>

\* size(), lines 69-70: tail = tail_.load(); return head - tail
MpscSizeLoadTail ==
    /\ m_obs.pc = "loadTail"
    /\ m_obs' = [pc |-> "idle", head |-> 0,
                 size |-> MpscSize(m_obs.head, m_tail)]
    /\ UNCHANGED <<spscVars, mpscVars, spmcVars, ctorVars>>

\* the steps of producer p's push, and of the consumer's pop
MpscPushStep(p) ==
    \/ MpscPushLoadHead(p)
    \/ MpscPushLoadSeq(p)
    \/ MpscPushCas(p)
    \/ MpscPushReload(p)
    \/ MpscPushStoreValue(p)
    \/ MpscPushStoreSeq(p)

MpscPopStep ==
    \/ MpscPopLoadTail
    \/ MpscPopLoadSeq
    \/ MpscPopMove
    \/ MpscPopStoreSeq
    \/ MpscPopStoreTail

MpscNext ==
    \/ \E p \in MpscProducers : MpscPushLoadHead(p)
    \/ \E p \in MpscProducers : MpscPushLoadSeq(p)
    \/ \E p \in MpscProducers : MpscPushCas(p)
    \/ \E p \in MpscProducers : MpscPushReload(p)
    \/ \E p \in MpscProducers : MpscPushStoreValue(p)
    \/ \E p \in MpscProducers : MpscPushStoreSeq(p)
    \/ MpscPopLoadTail
    \/ MpscPopLoadSeq
    \/ MpscPopMove
    \/ MpscPopStoreSeq
    \/ MpscPopStoreTail

(***************************************************************************)
(*                  SPMCQ, SPMCProducer, SPMCConsumer                      *)
(***************************************************************************)

\* capacity_ of the queue under test
SpmcCapacity == 2
\* the consumer handles, in the order getConsumer() hands them out
SpmcConsumers == {1, 2}
\* number of values the producer thread pushes when one consumer is made
\* (total = capacity * 2 + 1 in overlapping_consumer_does_not_break_others)
Total == 5
\* number of values the producer thread pushes when two consumers are made
\* (N in order_consistent_across_consumers)
OrderN == 4

\* SPMCQEntry: the value-initialised element of make_unique<elem[]>
SPMCQEntry == [data |-> 0, version |-> 0]

\* SPMCConsumer::SPMCConsumer: a fresh handle, lReadIdx{0}, lVersion{0}
SPMCConsumer ==
    [made |-> TRUE, pc |-> "idle", lReadIdx |-> 0, lVersion |-> 0,
     item |-> 0, ret |-> "none", callN |-> 0]

\* a handle getConsumer() has not handed out yet
NoConsumer == [SPMCConsumer EXCEPT !.made = FALSE]

\* number of push calls the producer has begun (completed or in progress)
SpmcBegun == q_prod.n + (IF q_prod.pc = "idle" THEN 0 ELSE 1)

\* the queue and its producer handle after construction; the producer thread
\* is to push the values 0 .. total-1
SpmcInitFor(total) ==
    /\ q_items = [i \in 0..(SpmcCapacity - 1) |-> SPMCQEntry]
    /\ q_mWriteIndex = 0
    /\ q_mReadIndex = 0
    /\ q_prod = [pc |-> "idle", lWriteIdx |-> 0, lVersion |-> 0, n |-> 0,
                 ret |-> "none", total |-> total]
    /\ q_cons = [c \in SpmcConsumers |-> NoConsumer]
    /\ q_hist = [c \in SpmcConsumers |->
                    [madeAt |-> 0, begunAt |-> 0, popped |-> <<>>,
                     overlapped |-> FALSE, base |-> -1]]

SpmcInit == SpmcInitFor(Total)
SpmcInit2 == SpmcInitFor(OrderN)

\* a version that counts pushes instead of laps
NxtVersion_EveryPush(lVersion, lWriteIdx) == lVersion + 1

\* push, lines 186-189: the next write index and the next version
NxtWriteIdx(lWriteIdx) == Mask(lWriteIdx + 1, SpmcCapacity)
NxtVersion(lVersion, lWriteIdx) ==
    lVersion + (IF lWriteIdx + 1 = SpmcCapacity THEN 1 ELSE 0)

\* a push that refuses to overwrite a slot some consumer has not read, as a
\* queue with back-pressure would
SpmcPushStoreWriteIndex_BackPressure ==
    /\ q_prod.pc = "idle"
    /\ q_prod.n < q_prod.total
    /\ IF \E c \in SpmcConsumers :
             q_cons[c].made /\ NxtWriteIdx(q_prod.lWriteIdx) = q_cons[c].lReadIdx
       THEN /\ q_prod' = [q_prod EXCEPT !.ret = "false"]
            /\ UNCHANGED q_mWriteIndex
       ELSE /\ q_mWriteIndex' = NxtWriteIdx(q_prod.lWriteIdx)
            /\ q_prod' = [q_prod EXCEPT !.pc = "slot", !.ret = "none"]
    /\ UNCHANGED <<q_items, q_mReadIndex, q_cons, q_hist>>
    /\ UNCHANGED <<spscVars, mpscVars, ctorVars, obsVars>>

\* a push that updates the view for readers together with the view for
\* writers, before it writes the slot
SpmcPushStoreWriteIndex_ReadersToo ==
    /\ q_prod.pc = "idle"
    /\ q_prod.n < q_prod.total
    /\ q_mWriteIndex' = NxtWriteIdx(q_prod.lWriteIdx)
    /\ q_mReadIndex' = NxtWriteIdx(q_prod.lWriteIdx)
    /\ q_prod' = [q_prod EXCEPT !.pc = "slot", !.ret = "none"]
    /\ UNCHANGED <<q_items, q_cons, q_hist>>
    /\ UNCHANGED <<spscVars, mpscVars, ctorVars, obsVars>>

\* push, line 191: the producer thread calls push(n); the push first stores
\* the next index into mWriteIndex ("update view for writers")
SpmcPushStoreWriteIndex ==
    /\ q_prod.pc = "idle"
    /\ q_prod.n < q_prod.total
    /\ q_mWriteIndex' = NxtWriteIdx(q_prod.lWriteIdx)
    /\ q_prod' = [q_prod EXCEPT !.pc = "slot", !.ret = "none"]
    /\ UNCHANGED <<q_items, q_mReadIndex, q_cons, q_hist>>
    /\ UNCHANGED <<spscVars, mpscVars, ctorVars, obsVars>>

\* push, line 193: items_[lWriteIdx] = elem{item, lVersion}. The slot is plain
\* memory that consumers read without synchronisation, so its two members are
\* two stores, which the build may issue in either order.
SpmcPushStoreData ==
    /\ q_prod.pc \in {"slot", "slotVersionDone"}
    /\ q_items' = [q_items EXCEPT ![q_prod.lWriteIdx].data = q_prod.n]
    /\ q_prod' = [q_prod EXCEPT !.pc = IF @ = "slot" THEN "slotDataDone"
                                       ELSE "publish"]
    /\ UNCHANGED <<q_mWriteIndex, q_mReadIndex, q_cons, q_hist>>
    /\ UNCHANGED <<spscVars, mpscVars, ctorVars, obsVars>>

SpmcPushStoreVersion ==
    /\ q_prod.pc \in {"slot", "slotDataDone"}
    /\ q_items' = [q_items EXCEPT ![q_prod.lWriteIdx].version = q_prod.lVersion]
    /\ q_prod' = [q_prod EXCEPT !.pc = IF @ = "slot" THEN "slotVersionDone"
                                       ELSE "publish"]
    /\ UNCHANGED <<q_mWriteIndex, q_mReadIndex, q_cons, q_hist>>
    /\ UNCHANGED <<spscVars, mpscVars, ctorVars, obsVars>>

\* a push that leaves the view for readers one push behind
SpmcPushStoreReadIndex_Lags ==
    /\ q_prod.pc = "publish"
    /\ q_mReadIndex' = q_prod.lWriteIdx
    /\ q_prod' = [q_prod EXCEPT !.pc = "idle", !.ret = "true", !.n = @ + 1,
                      !.lWriteIdx = NxtWriteIdx(q_prod.lWriteIdx),
                      !.lVersion = NxtVersion(q_prod.lVersion, q_prod.lWriteIdx)]
    /\ UNCHANGED <<q_items, q_mWriteIndex, q_cons, q_hist>>
    /\ UNCHANGED <<spscVars, mpscVars, ctorVars, obsVars>>

\* push, lines 195-199: store the next index into mReadIndex ("update view for
\* readers"), advance the local index and version, return true
SpmcPushStoreReadIndex ==
    /\ q_prod.pc = "publish"
    /\ q_mReadIndex' = NxtWriteIdx(q_prod.lWriteIdx)
    /\ q_prod' = [q_prod EXCEPT !.pc = "idle", !.ret = "true", !.n = @ + 1,
                      !.lWriteIdx = NxtWriteIdx(q_prod.lWriteIdx),
                      !.lVersion = NxtVersion(q_prod.lVersion, q_prod.lWriteIdx)]
    /\ UNCHANGED <<q_items, q_mWriteIndex, q_cons, q_hist>>
    /\ UNCHANGED <<spscVars, mpscVars, ctorVars, obsVars>>

\* SPMCQ::full(), lines 128-134, empty(), lines 139-144, and size(), lines
\* 149-154, on the values of mWriteIndex and mReadIndex they load
SpmcQFull(writeIdx, readIdx) == Mask(writeIdx + 1, SpmcCapacity) = readIdx
SpmcQEmpty(readIdx, writeIdx) == readIdx = writeIdx
SpmcQSize(readIdx, writeIdx) == Mask(SizeT(writeIdx - readIdx), SpmcCapacity)

\* the steps of the producer's push
SpmcPushStep ==
    \/ SpmcPushStoreWriteIndex
    \/ SpmcPushStoreData
    \/ SpmcPushStoreVersion
    \/ SpmcPushStoreReadIndex

\* SPMCQ::getConsumer, lines 115-118 and 271-277: hand out the next handle
SpmcGetConsumer(c) ==
    /\ ~q_cons[c].made
    /\ \A d \in SpmcConsumers : d < c => q_cons[d].made
    /\ q_cons' = [q_cons EXCEPT ![c] = SPMCConsumer]
    /\ q_hist' = [q_hist EXCEPT ![c].madeAt = q_prod.n, ![c].begunAt = SpmcBegun]
    /\ UNCHANGED <<q_items, q_mWriteIndex, q_mReadIndex, q_prod>>
    /\ UNCHANGED <<spscVars, mpscVars, ctorVars, obsVars>>

\* an empty test that always sees a value
SpmcPopEmpty_Never(lReadIdx, cursor) == FALSE

\* the empty test of pop, line 252
SpmcPopEmpty(lReadIdx, cursor) == lReadIdx = cursor

\* pop, lines 250-253: the consumer thread calls pop(item); the pop loads
\* mReadIndex and returns false when it equals lReadIdx
SpmcPopLoadCursor(c) ==
    /\ q_cons[c].made
    /\ q_cons[c].pc = "idle"
    /\ q_cons[c].ret = "none"
    /\ IF SpmcPopEmpty(q_cons[c].lReadIdx, q_mReadIndex)
       THEN q_cons' = [q_cons EXCEPT ![c].ret = "false"]
       ELSE q_cons' = [q_cons EXCEPT ![c].pc = "checkVersion",
                                     ![c].callN = q_prod.n]
    /\ UNCHANGED <<q_items, q_mWriteIndex, q_mReadIndex, q_prod, q_hist>>
    /\ UNCHANGED <<spscVars, mpscVars, ctorVars, obsVars>>

\* a pop that steps over the slot it lost before it raises
SpmcPopCheckVersion_Advances(c) ==
    /\ q_cons[c].pc = "checkVersion"
    /\ IF q_items[q_cons[c].lReadIdx].version # q_cons[c].lVersion
       THEN /\ q_cons' = [q_cons EXCEPT
                   ![c].pc = "idle", ![c].callN = 0, ![c].ret = "overlapped",
                   ![c].lReadIdx = Mask(q_cons[c].lReadIdx + 1, SpmcCapacity),
                   ![c].lVersion = q_cons[c].lVersion +
                       (IF q_cons[c].lReadIdx + 1 = SpmcCapacity THEN 1 ELSE 0)]
            /\ q_hist' = [q_hist EXCEPT ![c].overlapped = TRUE]
       ELSE /\ q_cons' = [q_cons EXCEPT ![c].pc = "copy"]
            /\ UNCHANGED q_hist
    /\ UNCHANGED <<q_items, q_mWriteIndex, q_mReadIndex, q_prod>>
    /\ UNCHANGED <<spscVars, mpscVars, ctorVars, obsVars>>

\* pop, lines 255-257: read the slot's version; throw when it is not lVersion
SpmcPopCheckVersion(c) ==
    /\ q_cons[c].pc = "checkVersion"
    /\ IF q_items[q_cons[c].lReadIdx].version # q_cons[c].lVersion
       THEN /\ q_cons' = [q_cons EXCEPT ![c].pc = "idle", ![c].callN = 0,
                                        ![c].ret = "overlapped"]
            /\ q_hist' = [q_hist EXCEPT ![c].overlapped = TRUE]
       ELSE /\ q_cons' = [q_cons EXCEPT ![c].pc = "copy"]
            /\ UNCHANGED q_hist
    /\ UNCHANGED <<q_items, q_mWriteIndex, q_mReadIndex, q_prod>>
    /\ UNCHANGED <<spscVars, mpscVars, ctorVars, obsVars>>

\* a pop that publishes its new read index in the shared cursor, as the
\* SPSC pop does
SpmcPopCopy_Publishes(c) ==
    /\ q_cons[c].pc = "copy"
    /\ LET data == q_items[q_cons[c].lReadIdx].data
       IN /\ q_cons' = [q_cons EXCEPT
                 ![c].pc = "idle", ![c].callN = 0,
                 ![c].ret = "true", ![c].item = data,
                 ![c].lReadIdx = Mask(q_cons[c].lReadIdx + 1, SpmcCapacity),
                 ![c].lVersion = q_cons[c].lVersion +
                     (IF q_cons[c].lReadIdx + 1 = SpmcCapacity THEN 1 ELSE 0)]
          /\ q_hist' = [q_hist EXCEPT ![c].popped = Append(@, data)]
    /\ q_mReadIndex' = Mask(q_cons[c].lReadIdx + 1, SpmcCapacity)
    /\ UNCHANGED <<q_items, q_mWriteIndex, q_prod>>
    /\ UNCHANGED <<spscVars, mpscVars, ctorVars, obsVars>>

\* pop, lines 259-265: item = val.data; advance lReadIdx and lVersion; return
\* true
SpmcPopCopy(c) ==
    /\ q_cons[c].pc = "copy"
    /\ LET data == q_items[q_cons[c].lReadIdx].data
       IN /\ q_cons' = [q_cons EXCEPT
                 ![c].pc = "idle", ![c].callN = 0,
                 ![c].ret = "true", ![c].item = data,
                 ![c].lReadIdx = Mask(q_cons[c].lReadIdx + 1, SpmcCapacity),
                 ![c].lVersion = q_cons[c].lVersion +
                     (IF q_cons[c].lReadIdx + 1 = SpmcCapacity THEN 1 ELSE 0)]
          /\ q_hist' = [q_hist EXCEPT ![c].popped = Append(@, data)]
    /\ UNCHANGED <<q_items, q_mWriteIndex, q_mReadIndex, q_prod>>
    /\ UNCHANGED <<spscVars, mpscVars, ctorVars, obsVars>>

\* the consumer thread has looked at what pop returned (or caught what it
\* threw) and goes on to its next call
SpmcPopReturned(c) ==
    /\ q_cons[c].pc = "idle"
    /\ q_cons[c].ret # "none"
    /\ q_cons' = [q_cons EXCEPT ![c].ret = "none"]
    /\ UNCHANGED <<q_items, q_mWriteIndex, q_mReadIndex, q_prod, q_hist>>
    /\ UNCHANGED <<spscVars, mpscVars, ctorVars, obsVars>>

\* SPMCConsumer::respawn, as the callers use it: in the handler of the
\* exception pop raised. It resynchronises the read index and the expected
\* version to the producer's current published position and abandons what is
\* unread.
SpmcRespawn(c) ==
    /\ q_cons[c].pc = "idle"
    /\ q_cons[c].ret = "overlapped"
    /\ q_cons' = [q_cons EXCEPT ![c].lReadIdx = q_mReadIndex,
                                ![c].lVersion = q_prod.lVersion,
                                ![c].ret = "none"]
    /\ q_hist' = [q_hist EXCEPT ![c].popped = <<>>, ![c].base = q_prod.n]
    /\ UNCHANGED <<q_items, q_mWriteIndex, q_mReadIndex, q_prod>>
    /\ UNCHANGED <<spscVars, mpscVars, ctorVars, obsVars>>

\* the steps of consumer handle c and its thread
SpmcConsumerStep(c) ==
    \/ SpmcGetConsumer(c)
    \/ SpmcPopLoadCursor(c)
    \/ SpmcPopCheckVersion(c)
    \/ SpmcPopCopy(c)
    \/ SpmcPopReturned(c)
    \/ SpmcRespawn(c)

\* one producer and one consumer
SpmcNext ==
    \/ SpmcPushStep
    \/ SpmcConsumerStep(1)

\* one producer and two consumers
SpmcNext2 ==
    \/ SpmcPushStep
    \/ \E c \in SpmcConsumers : SpmcConsumerStep(c)

(***************************************************************************)
(*                            Constructors                                 *)
(***************************************************************************)

\* largest capacity argument tried
MaxCapacity == 9
\* the queue types
QueueKinds == {"SPSCQ", "MPSCQ", "SPMCQ"}

\* std::bitset<...>(n).count(): the number of one bits of n
RECURSIVE PopCount(_)
PopCount(n) == IF n = 0 THEN 0 ELSE (n % 2) + PopCount(n \div 2)

\* a & b on size_t
RECURSIVE BitAnd(_, _)
BitAnd(a, b) ==
    IF a = 0 \/ b = 0 THEN 0
    ELSE (a % 2) * (b % 2) + 2 * BitAnd(a \div 2, b \div 2)

\* no constructor call in progress (the queues above are already constructed)
NoCtor ==
    [kind |-> "none", capacity |-> 0, pc |-> "done", i |-> 0, slots |-> 0,
     sequence |-> <<>>, result |-> "none"]

\* a constructor is called with some capacity
CtorInit ==
    k_ctor \in {[NoCtor EXCEPT !.kind = kind, !.capacity = capacity,
                               !.pc = "start"] :
                   kind \in QueueKinds, capacity \in 0..MaxCapacity}

\* the member initialisers, which run before the constructor body:
\* items_{make_unique<T[]>(capacity)} (SPSCQ 349-350, SPMCQ 85-87),
\* buffer_{make_unique<Cell[]>(capacity_)} (MPSCQ 20-21)
CtorAllocate ==
    /\ k_ctor.pc = "start"
    /\ k_ctor' = [k_ctor EXCEPT
          !.pc = "allocated",
          !.slots = k_ctor.capacity,
          !.sequence = IF k_ctor.kind = "MPSCQ"
                       THEN [j \in 1..k_ctor.capacity |-> 0] ELSE <<>>]
    /\ UNCHANGED <<spscVars, mpscVars, spmcVars, obsVars>>

\* the test of SPSCQ::SPSCQ (line 352) and of SPMCQ::SPMCQ (line 89)
InvalidCapacity(capacity) == capacity < 2 \/ PopCount(capacity) # 1

\* a test that forgot the lower bound
MpscInvalidCapacity_NoLowerBound(capacity) ==
    BitAnd(capacity, SizeT(capacity - 1)) # 0

\* the test of MPSCQ::MPSCQ (line 23)
MpscInvalidCapacity(capacity) ==
    capacity < 2 \/ BitAnd(capacity, SizeT(capacity - 1)) # 0

\* throw std::logic_error: the members are destroyed, no object exists
CtorThrown == [k_ctor EXCEPT !.pc = "thrown", !.result = "logic_error",
                             !.slots = 0, !.sequence = <<>>]

\* SPSCQ::SPSCQ, lines 351-354
SpscCtor ==
    /\ k_ctor.kind = "SPSCQ"
    /\ k_ctor.pc = "allocated"
    /\ k_ctor' = IF InvalidCapacity(k_ctor.capacity) THEN CtorThrown
                 ELSE [k_ctor EXCEPT !.pc = "done", !.result = "queue"]
    /\ UNCHANGED <<spscVars, mpscVars, spmcVars, obsVars>>

\* SPMCQ::SPMCQ, lines 88-91
SpmcCtor ==
    /\ k_ctor.kind = "SPMCQ"
    /\ k_ctor.pc = "allocated"
    /\ k_ctor' = IF InvalidCapacity(k_ctor.capacity) THEN CtorThrown
                 ELSE [k_ctor EXCEPT !.pc = "done", !.result = "queue"]
    /\ UNCHANGED <<spscVars, mpscVars, spmcVars, obsVars>>

\* MPSCQ::MPSCQ, lines 23-24
MpscCtorCheck ==
    /\ k_ctor.kind = "MPSCQ"
    /\ k_ctor.pc = "allocated"
    /\ k_ctor' = IF MpscInvalidCapacity(k_ctor.capacity) THEN CtorThrown
                 ELSE [k_ctor EXCEPT !.pc = "loop", !.i = 0]
    /\ UNCHANGED <<spscVars, mpscVars, spmcVars, obsVars>>

\* MPSCQ::MPSCQ, lines 26-27: buffer_[i].sequence.store(i)
MpscCtorStoreSequence ==
    /\ k_ctor.pc = "loop"
    /\ k_ctor.i < k_ctor.capacity
    /\ k_ctor' = [k_ctor EXCEPT !.sequence[k_ctor.i + 1] = k_ctor.i,
                                !.i = @ + 1]
    /\ UNCHANGED <<spscVars, mpscVars, spmcVars, obsVars>>

\* MPSCQ::MPSCQ, lines 29-31: head_ and tail_ are stored 0; constructed
MpscCtorDone ==
    /\ k_ctor.pc = "loop"
    /\ k_ctor.i = k_ctor.capacity
    /\ k_ctor' = [k_ctor EXCEPT !.pc = "done", !.result = "queue"]
    /\ UNCHANGED <<spscVars, mpscVars, spmcVars, obsVars>>

CtorNext ==
    \/ CtorAllocate
    \/ SpscCtor
    \/ SpmcCtor
    \/ MpscCtorCheck
    \/ MpscCtorStoreSequence
    \/ MpscCtorDone

(***************************************************************************)
(*                           Specifications                                *)
(***************************************************************************)

Init == SpscInit /\ MpscInit /\ SpmcInit /\ k_ctor = NoCtor /\ MpscObsInit
Init2 == SpscInit /\ MpscInit /\ SpmcInit2 /\ k_ctor = NoCtor /\ MpscObsInit
InitCtor == SpscInit /\ MpscInit /\ SpmcInit /\ CtorInit /\ MpscObsInit

SpecSPSC == Init /\ [][SpscNext]_vars
SpecMPSC == Init /\ [][MpscNext]_vars
SpecSPMC == Init /\ [][SpmcNext]_vars
SpecSPMC2 == Init2 /\ [][SpmcNext2]_vars
SpecCtor == InitCtor /\ [][CtorNext]_vars

\* the SPSC threads where the consumer thread keeps calling pop: its loop
\* never ends and the scheduler keeps running it
SpecSPSCFair == Init /\ [][SpscNext]_vars /\ WF_vars(SpscPopStep)

\* one of the two wait-free queues is exercised, the other stays as constructed
WaitFreeNext ==
    \/ SpmcInit /\ SpscNext
    \/ SpscInit /\ SpmcNext

SpecWaitFree == Init /\ [][WaitFreeNext]_vars

\* the MPSC threads where producer 1 is scheduled fairly and its
\* compare_exchange_weak does not fail spuriously for ever; producer 0 and
\* the consumer may stop anywhere
SpecMPSCFair ==
    /\ Init
    /\ [][MpscNext]_vars
    /\ WF_vars(MpscPushStep(1))
    /\ SF_vars(MpscPushCas(1) /\ m_head' # m_head)

\* the MPSC threads where producer 0 takes no step while a push of producer 1
\* is under way: producer 0 may stand anywhere in its own push meanwhile, and
\* the consumer runs freely
MpscAlone(p) == p = 1 \/ m_prod[1].pc = "idle"

MpscAloneNext ==
    \/ \E p \in MpscProducers : MpscAlone(p) /\ MpscPushLoadHead(p)
    \/ \E p \in MpscProducers : MpscAlone(p) /\ MpscPushLoadSeq(p)
    \/ \E p \in MpscProducers : MpscAlone(p) /\ MpscPushCas(p)
    \/ \E p \in MpscProducers : MpscAlone(p) /\ MpscPushReload(p)
    \/ \E p \in MpscProducers : MpscAlone(p) /\ MpscPushStoreValue(p)
    \/ \E p \in MpscProducers : MpscAlone(p) /\ MpscPushStoreSeq(p)
    \/ MpscPopLoadTail
    \/ MpscPopLoadSeq
    \/ MpscPopMove
    \/ MpscPopStoreSeq
    \/ MpscPopStoreTail

SpecMPSCAlone == Init /\ [][MpscAloneNext]_vars

\* the MPSC threads and a thread that keeps calling size()
MpscObsNext ==
    \/ MpscNext
    \/ MpscSizeLoadHead
    \/ MpscSizeLoadTail

SpecMPSCObs == Init /\ [][MpscObsNext]_vars

\* one of the three queues is exercised, the others stay as constructed
AnyNext ==
    \/ MpscInit /\ SpmcInit /\ SpscNext
    \/ SpscInit /\ SpmcInit /\ MpscNext
    \/ SpscInit /\ MpscInit /\ SpmcNext

SpecAny == Init /\ [][AnyNext]_vars

(***************************************************************************)
(*                               Claims                                    *)
(***************************************************************************)

Range(s) == {s[k] : k \in 1..Len(s)}
NoRepeat(s) == \A j, k \in 1..Len(s) : j # k => s[j] # s[k]

\* C1 (SPSC FIFO): with the producer pushing 0,1,...,N-1 and retrying every
\* push that returns false, the values returned by successful pops are
\* 0,1,2,... in order under every interleaving: the k-th popped value is k-1,
\* and no value is popped before its push has returned.
C1_SpscFifo ==
    /\ Len(s_popped) <= s_prod.i
    /\ \A k \in 1..Len(s_popped) : s_popped[k] = k - 1

\* C1 witness: the consumer has popped all N values, N > capacity, so the ring
\* has wrapped
C1_Witness ==
    /\ Iterations > SpscCapacity
    /\ s_popped = [k \in 1..Iterations |-> k - 1]

\* a pushed value that pop has not returned is still in the queue: in a
\* published cell between tail_ and head_, or in the hands of the pop that is
\* moving it out
MpscHeld(v) ==
    \/ \E pos \in m_tail..(m_head - 1) :
          /\ m_sequence[Mask(pos, MpscCapacity)] = pos + 1
          /\ m_value[Mask(pos, MpscCapacity)] = v
    \/ m_cons.pc \in {"storeSeq", "storeTail"} /\ m_cons.out = v

\* C2 (MPSC no duplication, no loss): no value is popped twice, every popped
\* value is one whose push has published it, and every value whose push
\* returned true has either been popped or is still held by the queue (so
\* once the queue is drained, the popped values are exactly the pushed ones).
C2_MpscExactlyOnce ==
    /\ NoRepeat(m_popped)
    /\ Range(m_popped) \subseteq Range(m_pushed)
    /\ \A v \in Range(m_pushed) : v \in Range(m_popped) \/ MpscHeld(v)
    /\ (m_head = m_tail /\ m_cons.pc = "idle" /\ \A p \in MpscProducers : m_prod[p].pc = "idle")
          => Range(m_popped) = Range(m_pushed)

\* C2 witness: every producer has pushed all its values, the consumer has
\* popped them all, and the producers' values are interleaved in the pop order
C2_Witness ==
    /\ \A p \in MpscProducers : m_prod[p].i = PerProducer
    /\ Len(m_popped) = Cardinality(MpscProducers) * PerProducer
    /\ m_head = m_tail
    /\ m_popped[1] = MpscValue(1, 0)
    /\ m_popped[2] = MpscValue(0, 0)

\* s is from, from+1, from+2, ...
Consecutive(s, from) == \A k \in 1..Len(s) : s[k] = from + k - 1
\* a occurs before b in s
Before(s, a, b) == \E j, k \in 1..Len(s) : j < k /\ s[j] = a /\ s[k] = b
\* the consumers that hold a handle and have never seen Overlapped
SpmcClean == {c \in SpmcConsumers : q_cons[c].made /\ ~q_hist[c].overlapped}
\* this step is the one in which c's pop returns r ("overlapped": throws)
SpmcPopReturns(c, r) == q_cons[c].ret = "none" /\ q_cons'[c].ret = r
\* the pushes that had completed when the pop that c is in, or calls in this
\* step, was called
SpmcCallN(c) == IF q_cons[c].pc = "idle" THEN q_prod.n ELSE q_cons[c].callN
\* the first value c is to see: the first one pushed after it was made or
\* last respawned
SpmcFirst(c) == IF q_hist[c].base >= 0 THEN q_hist[c].base ELSE q_hist[c].begunAt

\* C3 (SPMC broadcast from the creation point): a consumer whose pops never
\* raised Overlapped has popped the push sequence from its creation point on:
\* its k-th value is the k-th value pushed after getConsumer() returned (the
\* push in progress at that moment may or may not count as pushed before).
C3_SpmcFromCreation ==
    \A c \in SpmcClean :
        \/ Consecutive(q_hist[c].popped, q_hist[c].madeAt)
        \/ Consecutive(q_hist[c].popped, q_hist[c].begunAt)

\* C4 (SPMC lapped consumer gets Overlapped): a pop called when the producer
\* had completed at least capacity more pushes than the consumer had popped
\* returns neither true nor false (it raises Overlapped).
C4_SpmcLappedRaises ==
    [][\A c \in SpmcConsumers :
          (/\ q_hist[c].base = -1
           /\ SpmcPopReturns(c, "true") \/ SpmcPopReturns(c, "false"))
          => ~(SpmcCallN(c) - Len(q_hist[c].popped) >= SpmcCapacity)]_vars

\* C5 (SPMC order consistent across consumers): two consumers that never saw
\* Overlapped have popped the values both have seen in the same relative
\* order, the push order (value v is the v-th push).
C5_SpmcSameOrder ==
    \A c, d \in SpmcClean :
        c # d =>
            \A a, b \in Range(q_hist[c].popped) \cap Range(q_hist[d].popped) :
                Before(q_hist[c].popped, a, b) => a < b

\* C6 (SPMC overlap is precise): a pop of a consumer that has popped k values
\* raises Overlapped only if the producer has pushed at least k + capacity
\* values since the consumer's creation (pushes still in progress counted).
C6_SpmcOverlapPrecise ==
    \A c \in SpmcConsumers :
        (q_hist[c].base = -1 /\ q_cons[c].ret = "overlapped")
        => SpmcBegun - q_hist[c].madeAt >= Len(q_hist[c].popped) + SpmcCapacity

\* C7 (SPMC false means empty): a pop returns false only if the consumer has
\* popped every value whose push had completed when the pop was called (its
\* values start at its creation point, or at its last respawn).
C7_SpmcFalseMeansEmpty ==
    [][\A c \in SpmcConsumers :
          SpmcPopReturns(c, "false")
          => \A v \in SpmcFirst(c)..(SpmcCallN(c) - 1) :
                v \in Range(q_hist[c].popped)]_vars

C9_SpmcPopFrame ==
    [][\A c \in SpmcConsumers :
          (\/ q_cons'[c].pc # q_cons[c].pc
           \/ \E r \in {"true", "false", "overlapped"} : SpmcPopReturns(c, r))
          => /\ UNCHANGED <<q_items, q_mWriteIndex, q_mReadIndex, q_prod>>
             /\ \A d \in SpmcConsumers \ {c} :
                   q_cons'[d] = q_cons[d] /\ q_hist'[d] = q_hist[d]]_vars

\* C9 witness: one consumer is overlapped while the other has popped every
\* pushed value in order, the producer having lapped the ring
C9_Witness ==
    /\ q_prod.total > SpmcCapacity
    /\ \E c, d \in SpmcConsumers :
          /\ c # d
          /\ q_cons[d].ret = "overlapped"
          /\ q_hist[c].popped = [k \in 1..q_prod.total |-> k - 1]

\* C10 (SPMC respawn): once a consumer has respawned, what it pops afterwards
\* is the sequence of values pushed after the respawn, in push order: nothing
\* pushed before the respawn, nothing skipped, nothing out of order.
C10_SpmcRespawnResumes ==
    \A c \in SpmcConsumers :
        q_hist[c].base >= 0 => Consecutive(q_hist[c].popped, q_hist[c].base)

\* the consumer thread has never called pop
SpscNeverPopped == s_cons.pc = "idle" /\ s_cons.ret = "none" /\ s_popped = <<>>
\* no push and no pop is in progress
SpscQuiet == s_prod.pc = "idle" /\ s_cons.pc = "idle"

\* C11 (SPSC bound): in every reachable state size(), full() and empty(),
\* evaluated on the current cursor values, satisfy 0 <= size() <= capacity-1,
\* full() <=> size() = capacity-1 and empty() <=> size() = 0, and size() is the
\* number of completed pushes not yet popped.
C11_SpscSizeBound ==
    LET size == SpscSize(s_readIdx, s_writeIdx)
    IN /\ size \in 0..(SpscCapacity - 1)
       /\ SpscFull(s_writeIdx, s_readIdx) <=> size = SpscCapacity - 1
       /\ SpscEmpty(s_readIdx, s_writeIdx) <=> size = 0
       /\ size = s_prod.i - Len(s_popped)

\* C11 witness: the queue is full with the write cursor wrapped behind the
\* read cursor, so that writeIdx - readIdx is negative before the mask
C11_Witness ==
    /\ s_writeIdx < s_readIdx
    /\ SpscFull(s_writeIdx, s_readIdx)
    /\ SpscSize(s_readIdx, s_writeIdx) = SpscCapacity - 1

C13_SpscAcceptsCapacity ==
    /\ (SpscNeverPopped /\ s_prod.pc = "idle" /\ s_prod.i < SpscCapacity)
          => s_prod.ret # "false"
    /\ (SpscNeverPopped /\ s_prod.pc = "idle" /\ s_prod.i = SpscCapacity)
          => SpscFull(s_writeIdx, s_readIdx)
    /\ (SpscQuiet /\ Len(s_popped) = 2 /\ s_prod.i = SpscCapacity)
          => SpscSize(s_readIdx, s_writeIdx) = SpscCapacity - 2
    /\ (SpscQuiet /\ Len(s_popped) = 2 /\ s_prod.i = SpscCapacity + 1)
          => SpscSize(s_readIdx, s_writeIdx) = SpscCapacity - 1

\* a capacity the constructors must accept: a power of two, at least 2
PowerOfTwoAtLeast2(capacity) == \E e \in 1..WordBits : capacity = 2 ^ e

MpscInFlight == {p \in MpscProducers : m_prod[p].pc \in {"storeValue", "storeSeq"}}

\* C15 as stated (MPSC conservation in every state): the pushes that have
\* returned true are as many as the pops that have returned true plus
\* size() = head - tail.
C15_MpscConservation ==
    Len(m_pushed) = Len(m_popped) + MpscSize(m_head, m_tail)

\* C15 as amended: head - tail is the number of pushes that have won their
\* compare-and-swap minus the number of pops that have returned true; the
\* pushes that have returned true are that many less the pushes in flight, so
\* the stated equation holds whenever no push is between its
\* compare-and-swap and its return.
C15_MpscConservation_Amended ==
    /\ MpscSize(m_head, m_tail) = Len(m_claimed) - Len(m_popped)
    /\ Len(m_pushed) + Cardinality(MpscInFlight)
          = Len(m_popped) + MpscSize(m_head, m_tail)
    /\ MpscInFlight = {} => C15_MpscConservation

\* C15 witness: no operation is in progress, three pushes and two pops have
\* returned true, and size() is 1
C15_Witness ==
    /\ \A p \in MpscProducers : m_prod[p].pc = "idle"
    /\ m_cons.pc = "idle"
    /\ Len(m_pushed) = 3
    /\ Len(m_popped) = 2
    /\ MpscSize(m_head, m_tail) = 1

\* the producer and the iteration a value comes from (value = pid * 100 + i)
MpscPid(v) == v \div 100
MpscIter(v) == v % 100

\* C16 (MPSC total order): the popped sequence is a prefix of the sequence in
\* which the pushes won the compare-and-swap on head; the values of one
\* producer are popped in that producer's push order.
C16_MpscCasOrder ==
    /\ Len(m_popped) <= Len(m_claimed)
    /\ \A k \in 1..Len(m_popped) : m_popped[k] = m_claimed[k]
    /\ \A j, k \in 1..Len(m_popped) :
          (j < k /\ MpscPid(m_popped[j]) = MpscPid(m_popped[k]))
              => MpscIter(m_popped[j]) < MpscIter(m_popped[k])

\* C16 witness: everything was popped, the producers' claims alternated, and
\* the pushes returned in another order than they won the compare-and-swap
C16_Witness ==
    /\ Len(m_popped) = Cardinality(MpscProducers) * PerProducer
    /\ m_popped = m_claimed
    /\ m_pushed # m_claimed
    /\ MpscPid(m_claimed[1]) # MpscPid(m_claimed[2])

\* C17 (MPSC false means empty): a pop returns false only if every push that
\* had returned true when the pop was called has had its value popped.
C17_MpscFalseMeansEmpty ==
    [][(m_cons.pc = "loadSeq" /\ m_cons'.pc = "idle" /\ m_cons'.ret = "false")
       => \A k \in 1..m_cons.callPushed : m_pushed[k] \in Range(m_popped)]_vars

\* C18 (MPSC push false means full): the step in which a push reads the cell
\* sequence that makes it return false is taken with head - tail >= capacity.
C18_MpscFalseMeansFull ==
    [][\A p \in MpscProducers :
          (m_prod[p].pc = "loadSeq" /\ m_prod'[p].pc = "idle"
           /\ m_prod'[p].ret = "false")
          => m_head - m_tail >= MpscCapacity]_vars

\* C18 witness: a push has returned false while the other producer was in the
\* middle of a push of its own
C18_Witness ==
    \E p, r \in MpscProducers :
        /\ p # r
        /\ m_prod[p].pc = "idle" /\ m_prod[p].ret = "false"
        /\ m_prod[r].pc \in {"storeValue", "storeSeq"}

\* C17 as amended: a pop returns false only if the push that claimed
\* position tail, the oldest position not yet popped, has not returned yet
\* (or no push has claimed it: the queue is empty); so with no push in flight
\* a pop returns false only when every pushed value has been popped.
C17_MpscFalseMeansUnpublished ==
    [][(m_cons.pc = "loadSeq" /\ m_cons'.pc = "idle" /\ m_cons'.ret = "false")
       => /\ m_cons.pos = Len(m_popped)
          /\ Len(m_claimed) > m_cons.pos =>
                /\ m_claimed[m_cons.pos + 1] \notin Range(m_pushed)
                /\ \E p \in MpscInFlight : m_prod[p].pos = m_cons.pos
          /\ MpscInFlight = {} => Range(m_pushed) \subseteq Range(m_popped)]_vars

\* C17 witness: a pop has returned false while a push that returned true is
\* unpopped, behind the position of a push still in flight
C17_Witness ==
    /\ m_cons.pc = "idle"
    /\ m_cons.ret = "false"
    /\ \E v \in Range(m_pushed) : v \notin Range(m_popped)
    /\ \E p \in MpscInFlight : m_prod[p].pos = m_tail

\* C19 (SPSC liveness): with a consumer that keeps calling pop, every value
\* whose push has returned true (value v is the v-th push) is eventually the
\* v-th value popped.
C19_SpscEventuallyPopped ==
    \A v \in 0..(Iterations - 1) :
        (s_prod.i > v) ~> (Len(s_popped) > v /\ s_popped[v + 1] = v)

\* C19 witness: the producer has stopped after a push that found the queue
\* full (the third returned true, the fourth false) and the consumer has
\* popped all three values
C19_Witness ==
    /\ s_prod.pc = "idle"
    /\ s_prod.ret = "false"
    /\ s_prod.i = SpscCapacity - 1
    /\ s_popped = [k \in 1..(SpscCapacity - 1) |-> k - 1]

\* how far into its operation a thread is
Rank(pc) ==
    CASE pc = "idle" -> 0
      [] pc \in {"loadRead", "loadWrite", "slot", "checkVersion"} -> 1
      [] pc \in {"store", "move", "slotDataDone", "slotVersionDone", "copy"} -> 2
      [] pc = "publish" -> 3

\* a step of thread th (before and after) goes forward in its operation or
\* ends it
Forward(before, after) ==
    after # before =>
        \/ after.pc = "idle"
        \/ Rank(after.pc) > Rank(before.pc)

\* C20 (wait-freedom of SPSC and SPMC): in every state a thread inside push
\* or pop can take its next step whatever its peers have done or stopped
\* doing, and every step of an operation moves to a later step of it or ends
\* it, so an operation ends within four of its caller's steps.
C20_WaitFree ==
    /\ [](/\ s_prod.pc # "idle" => ENABLED SpscPushStep
          /\ s_cons.pc # "idle" => ENABLED SpscPopStep
          /\ q_prod.pc # "idle" => ENABLED SpmcPushStep
          /\ \A c \in SpmcConsumers :
                q_cons[c].pc # "idle" =>
                    ENABLED (SpmcPopCheckVersion(c) \/ SpmcPopCopy(c)))
    /\ [][/\ Forward(s_prod, s_prod')
          /\ Forward(s_cons, s_cons')
          /\ Forward(q_prod, q_prod')
          /\ \A c \in SpmcConsumers : Forward(q_cons[c], q_cons'[c])]_vars

\* C20 witness: a pop of the SPMC consumer has raised Overlapped while the
\* producer stood still in the middle of a push
C20_Witness ==
    /\ q_prod.pc = "slotDataDone"
    /\ q_cons[1].pc = "idle"
    /\ q_cons[1].ret = "overlapped"

\* producer p goes round its claim loop in this step
MpscLoops(p) ==
    /\ m_prod[p].pc \in {"loadSeq", "cas"}
    /\ m_prod'[p].pc \in {"reload", "loadSeq"}
    /\ m_prod'[p] # m_prod[p]

\* every push call of producer 1 returns, whatever producer 0 and the
\* consumer do or stop doing
MpscPushReturns == (m_prod[1].pc # "idle") ~> (m_prod[1].pc = "idle")

C22_CursorsMonotone ==
    [][/\ s_writeIdx' >= s_writeIdx
       /\ s_readIdx' >= s_readIdx
       /\ m_head' >= m_head
       /\ m_tail' >= m_tail
       /\ q_mReadIndex' >= q_mReadIndex]_vars

\* cursor c is left alone or advanced by one modulo capacity
Advanced(c, after, capacity) == after = c \/ after = Mask(c + 1, capacity)

\* C22 as amended: MPSC head_ and tail_ never decrease (a step leaves them or
\* adds one); the SPSC cursors and the SPMC cursors are stored masked: a step
\* leaves them or advances them by one modulo capacity, so they fall to 0
\* from capacity-1 and never otherwise; a push or pop that returns true has
\* advanced its cursor by exactly one.
C22_CursorsAdvanceByOne ==
    [][/\ m_head' = m_head \/ m_head' = m_head + 1
       /\ m_tail' = m_tail \/ m_tail' = m_tail + 1
       /\ Advanced(s_writeIdx, s_writeIdx', SpscCapacity)
       /\ Advanced(s_readIdx, s_readIdx', SpscCapacity)
       /\ Advanced(q_mReadIndex, q_mReadIndex', SpmcCapacity)
       /\ Advanced(q_mWriteIndex, q_mWriteIndex', SpmcCapacity)
       /\ (s_prod.pc = "publish" /\ s_prod'.pc = "idle")
             => s_writeIdx' = Mask(s_writeIdx + 1, SpscCapacity)
       /\ (s_cons.pc = "publish" /\ s_cons'.pc = "idle")
             => s_readIdx' = Mask(s_readIdx + 1, SpscCapacity)
       /\ (m_cons.pc = "storeTail" /\ m_cons'.pc = "idle")
             => m_tail' = m_tail + 1
       /\ (q_prod.pc = "publish" /\ q_prod'.pc = "idle")
             => q_mReadIndex' = Mask(q_mReadIndex + 1, SpmcCapacity)]_vars

\* C22 witness: every masked cursor has wrapped to 0 at least once (the SPSC
\* cursors after capacity pushes and pops, the SPMC cursor after capacity
\* pushes)
C22_Witness ==
    \/ /\ s_prod.i > SpscCapacity
       /\ Len(s_popped) = SpscCapacity
       /\ s_readIdx = 0
       /\ s_writeIdx = 1
    \/ /\ q_prod.n = SpmcCapacity + 1
       /\ q_mReadIndex = 1
       /\ q_prod.pc = "idle"

\* C23 (SPSC conservation): whenever no push and no pop is under way, size()
\* is the number of pushes that returned true minus the number of pops that
\* returned true, and empty() holds exactly when that difference is 0.
C23_SpscConservation ==
    SpscQuiet =>
        /\ SpscSize(s_readIdx, s_writeIdx) = s_prod.i - Len(s_popped)
        /\ SpscEmpty(s_readIdx, s_writeIdx) <=> (s_prod.i - Len(s_popped) = 0)

\* C23 witness: quiescent after the write cursor has wrapped, with two values
\* in the queue and the write cursor below the read cursor
C23_Witness ==
    /\ SpscQuiet
    /\ s_prod.i - Len(s_popped) = 2
    /\ s_writeIdx < s_readIdx
    /\ s_prod.i > SpscCapacity

\* the consumer's pop call ends in this step
SpscPopEnds == s_cons.pc # "idle" /\ s_cons'.pc = "idle"

\* C24 (SPSC pop on empty): a pop returns false exactly when the read cursor
\* it loaded equals the write cursor it loads, and returns true otherwise; a
\* pop that returns false has left the caller's variable, both cursors and
\* every slot as they were.
C24_SpscPopFalseFrame ==
    [][/\ (s_cons.pc = "loadWrite" /\ s_cons' # s_cons) =>
            /\ s_cons'.pc = "idle" <=> s_cons.readIdx = s_writeIdx
            /\ s_cons'.pc = "idle" => s_cons'.ret = "false"
            /\ s_cons'.pc # "idle" => s_cons'.pc = "move" /\ s_cons'.ret = "none"
       /\ (SpscPopEnds /\ s_cons.pc # "loadWrite") => s_cons'.ret = "true"
       /\ (s_cons.pc \in {"idle", "loadWrite"} /\ s_cons' # s_cons
              /\ s_cons'.pc # "move") =>
            /\ s_cons'.item = s_cons.item
            /\ s_readIdx' = s_readIdx
            /\ s_writeIdx' = s_writeIdx
            /\ s_items' = s_items
            /\ s_popped' = s_popped]_vars

\* C24 witness: a pop has returned false on a queue that was used before, so
\* the caller's variable still holds the value of the last successful pop
C24_Witness ==
    /\ s_cons.pc = "idle"
    /\ s_cons.ret = "false"
    /\ Len(s_popped) = 2
    /\ s_cons.item = s_popped[2]
    /\ s_cons.item # 0
    /\ s_readIdx = s_writeIdx

\* C25 (SPMC overwrite during a read is caught): a pop that returns true
\* delivers the value the producer wrote into the consumer's slot on the lap
\* the consumer expects (value v is written on lap v \div capacity into slot
\* v % capacity), never one a later lap wrote over it.
C25_SpmcNoSilentOverwrite ==
    [][\A c \in SpmcConsumers :
          (q_cons[c].pc = "copy" /\ q_cons'[c].ret = "true") =>
              /\ q_cons'[c].item \div SpmcCapacity = q_cons[c].lVersion
              /\ q_cons'[c].item % SpmcCapacity = q_cons[c].lReadIdx]_vars

\* the last completed push that wrote slot i, or -1
SpmcLastPush(i) ==
    LET js == {j \in 0..(q_prod.n - 1) : j % SpmcCapacity = i}
    IN IF js = {} THEN -1 ELSE CHOOSE j \in js : \A k \in js : k <= j

\* the push in progress is writing slot i
SpmcWriting(i) == q_prod.pc # "idle" /\ q_prod.lWriteIdx = i

\* C26 (SPMC payload before cursor): the cursor consumers read changes only
\* in a step before which the slot of that push holds the push's value and
\* version; a pop that finds the cursor away from its read index looks at a
\* slot a completed push has written; the cursor always stands at the number of completed pushes modulo
\* capacity; and a slot a completed push has written holds the value and the
\* version of the last completed push into it, or of the push of the next lap
\* that is writing it now, never older content.
C26_SpmcPayloadBeforeCursor ==
    /\ [][q_mReadIndex' # q_mReadIndex =>
             /\ q_items[q_prod.lWriteIdx] =
                    [data |-> q_prod.n, version |-> q_prod.lVersion]
             /\ q_items' = q_items
             /\ q_mReadIndex' = NxtWriteIdx(q_prod.lWriteIdx)
             /\ q_prod'.n = q_prod.n + 1]_vars
    /\ [][\A c \in SpmcConsumers :
             (q_cons[c].pc = "idle" /\ q_cons'[c].pc = "checkVersion") =>
                 SpmcLastPush(q_cons[c].lReadIdx) >= 0]_vars
    /\ [](q_mReadIndex = q_prod.n % SpmcCapacity)
    /\ [](\A i \in 0..(SpmcCapacity - 1) :
            SpmcLastPush(i) >= 0 =>
                LET j == SpmcLastPush(i)
                IN /\ \/ q_items[i].data = j
                      \/ SpmcWriting(i) /\ q_items[i].data = q_prod.n
                   /\ \/ q_items[i].version = j \div SpmcCapacity
                      \/ /\ SpmcWriting(i)
                         /\ q_items[i].version = q_prod.n \div SpmcCapacity)

\* C26 witness: the cursor has been published on the second lap, for a slot
\* that held older content before that push
C26_Witness ==
    /\ q_prod.pc = "idle"
    /\ q_prod.n = SpmcCapacity + 1
    /\ q_mReadIndex = 1
    /\ q_items[0] = [data |-> SpmcCapacity, version |-> 1]

\* C27 (SPMC publishes once): a step of push stores into a shared cursor
\* field only when the slot holds the value and version of that push, and a
\* push has one such step.
C27_SpmcPublishOnce ==
    [][(q_mWriteIndex' # q_mWriteIndex \/ q_mReadIndex' # q_mReadIndex) =>
          /\ q_prod.pc = "publish"
          /\ q_prod'.pc = "idle"
          /\ q_items[q_prod.lWriteIdx] =
                 [data |-> q_prod.n, version |-> q_prod.lVersion]]_vars

\* C28 (SPMC index and version): after n completed pushes the producer's
\* local write index is n % capacity and its local version n \div capacity; a
\* slot no push is writing holds the version j \div capacity of the last push
\* j into it (0 when it was never written), and a slot under a push holds
\* that version or the version of the push in progress.
C28_SpmcVersionIsLap ==
    /\ q_prod.lWriteIdx = q_prod.n % SpmcCapacity
    /\ q_prod.lVersion = q_prod.n \div SpmcCapacity
    /\ \A i \in 0..(SpmcCapacity - 1) :
          LET j == SpmcLastPush(i)
              was == IF j < 0 THEN 0 ELSE j \div SpmcCapacity
          IN \/ q_items[i].version = was
             \/ SpmcWriting(i) /\ q_items[i].version = q_prod.n \div SpmcCapacity

\* C28 witness: five pushes have completed on a ring of two slots: the index
\* is 1, the version 2, slot 0 was last written on lap 2 and slot 1 on lap 1
C28_Witness ==
    /\ q_prod.pc = "idle"
    /\ q_prod.n = 2 * SpmcCapacity + 1
    /\ q_prod.lWriteIdx = 1
    /\ q_prod.lVersion = 2
    /\ q_items[0].version = 2
    /\ q_items[1].version = 1

\* the number of cells the consumer has reclaimed: tail_, and one more
\* between its store to the cell's sequence and its store to tail_
MpscReclaimed == m_tail + (IF m_cons.pc = "storeTail" THEN 1 ELSE 0)

\* the position of cell i in its current round: the one position among the
\* capacity positions from MpscReclaimed on that is masked to i
MpscRound(i) ==
    CHOOSE pos \in MpscReclaimed..(MpscReclaimed + MpscCapacity - 1) :
        Mask(pos, MpscCapacity) = i

\* C29 (MPSC cell sequence): cell i starts at sequence i; its sequence is
\* always pos (free for position pos) or pos + 1 (published by the claimant
\* of pos), for the position pos = i + k * capacity of the cell's current
\* round; it changes only by a publish, pos to pos + 1 by the producer that
\* claimed pos, or by a reclaim, pos + 1 to pos + capacity by the consumer
\* at tail = pos, so publishes and reclaims of a cell alternate.
C29_MpscCellSequence ==
    /\ [](\A i \in 0..(MpscCapacity - 1) :
            LET pos == MpscRound(i)
            IN \/ m_sequence[i] = pos
               \/ m_sequence[i] = pos + 1 /\ pos < m_head)
    /\ [][\A i \in 0..(MpscCapacity - 1) :
            m_sequence'[i] # m_sequence[i] =>
               \/ \E p \in MpscProducers :
                     /\ m_prod[p].pc = "storeSeq"
                     /\ m_prod'[p].pc = "idle"
                     /\ Mask(m_prod[p].pos, MpscCapacity) = i
                     /\ m_claimed[m_prod[p].pos + 1] = MpscValue(p, m_prod[p].i)
                     /\ m_sequence[i] = m_prod[p].pos
                     /\ m_sequence'[i] = m_prod[p].pos + 1
               \/ /\ m_cons.pc = "storeSeq"
                  /\ m_cons'.pc = "storeTail"
                  /\ m_cons.pos = m_tail
                  /\ Mask(m_tail, MpscCapacity) = i
                  /\ m_sequence[i] = m_tail + 1
                  /\ m_sequence'[i] = m_tail + MpscCapacity]_vars

\* C29 witness: cell 0 has been published, reclaimed and published again, in
\* its second round
C29_Witness ==
    /\ m_sequence[0] = MpscCapacity + 1
    /\ m_tail = MpscCapacity
    /\ m_head > MpscCapacity

\* number of values the consumer has moved out of their cells
MpscMoved == Len(m_popped) + (IF m_cons.pc \in {"storeSeq", "storeTail"} THEN 1 ELSE 0)

\* C30 (MPSC exclusive cells): each position of head is claimed once, by
\* the producer whose compare-and-swap moved head from it; two producers
\* between claim and publish hold different positions and different cells; a
\* producer stores into a cell only after the value of the previous round
\* has been moved out of it; the consumer moves a value out of a cell only
\* after the claimant of that position has stored and published it.
C30_MpscExclusiveCells ==
    /\ [](/\ Len(m_claimed) = m_head
          /\ \A p \in MpscInFlight :
                /\ m_prod[p].pos < m_head
                /\ m_claimed[m_prod[p].pos + 1] = MpscValue(p, m_prod[p].i)
          /\ \A p, r \in MpscInFlight :
                p # r => /\ m_prod[p].pos # m_prod[r].pos
                         /\ Mask(m_prod[p].pos, MpscCapacity)
                               # Mask(m_prod[r].pos, MpscCapacity))
    /\ [][\A p \in MpscProducers :
            (m_prod[p].pc = "cas" /\ m_prod'[p].pc = "storeValue") =>
                /\ m_head = m_prod[p].pos
                /\ m_head' = m_head + 1]_vars
    /\ [][\A p \in MpscProducers :
            (m_prod[p].pc = "storeValue" /\ m_prod'[p].pc = "storeSeq") =>
                /\ m_prod[p].pos - MpscCapacity < MpscMoved
                /\ m_sequence[Mask(m_prod[p].pos, MpscCapacity)] = m_prod[p].pos
                /\ ~(m_cons.pc = "move"
                       /\ Mask(m_cons.pos, MpscCapacity)
                             = Mask(m_prod[p].pos, MpscCapacity))]_vars
    /\ [][(m_cons.pc = "move" /\ m_cons'.pc = "storeSeq") =>
            /\ m_cons.pos < Len(m_claimed)
            /\ m_claimed[m_cons.pos + 1] \in Range(m_pushed)
            /\ m_value[Mask(m_cons.pos, MpscCapacity)] = m_claimed[m_cons.pos + 1]
            /\ m_cons'.out = m_claimed[m_cons.pos + 1]]_vars

\* C30 witness: both producers stand between claim and publish, on the two
\* cells of the ring in its second round, the first round moved out
C30_Witness ==
    /\ MpscInFlight = MpscProducers
    /\ m_head = 2 * MpscCapacity
    /\ Len(m_popped) = MpscCapacity
    /\ m_prod[0].pos # m_prod[1].pos

\* C31 as stated (MPSC push without contention): a push of producer 1
\* during which producer 0 takes no step never goes round its claim loop:
\* it loads the sequence once and returns false, or goes on to the
\* compare-and-swap, the value store and the publish, whatever the consumer
\* does meanwhile.
C31_MpscSingleIteration ==
    [][/\ ~MpscLoops(1)
       /\ m_prod'[1].pc # "reload"
       /\ (m_prod[1].pc = "cas" /\ m_prod'[1] # m_prod[1])
             => m_prod'[1].pc = "storeValue"]_vars

\* C31 as amended: such a push goes round its claim loop only when its
\* compare_exchange_weak fails although head_ still holds the position it
\* loaded; it never finds a cell ahead of its position (diff > 0), and every
\* other step takes it forward to its return.
C31_MpscSingleIteration_Amended ==
    [][/\ MpscLoops(1) =>
             /\ m_prod[1].pc = "cas"
             /\ m_head = m_prod[1].pos
             /\ m_prod'[1] = [m_prod[1] EXCEPT !.pc = "loadSeq"]
       /\ m_prod'[1].pc # "reload"
       /\ (m_prod[1].pc = "loadSeq" /\ m_prod'[1] # m_prod[1])
             => \/ m_prod'[1].pc = "cas"
                \/ m_prod'[1].pc = "idle" /\ m_prod'[1].ret = "false"
       /\ (m_prod[1].pc = "storeValue" /\ m_prod'[1] # m_prod[1])
             => m_prod'[1].pc = "storeSeq"
       /\ (m_prod[1].pc = "storeSeq" /\ m_prod'[1] # m_prod[1])
             => m_prod'[1].pc = "idle" /\ m_prod'[1].ret = "true"]_vars

\* C31 witness: a push of producer 1 has returned true with producer 0
\* standing between its claim and its publish and the consumer inside a pop
C31_Witness ==
    /\ m_prod[1].pc = "idle"
    /\ m_prod[1].ret = "true"
    /\ m_prod[0].pc = "storeValue"
    /\ m_cons.pc = "storeTail"

\* number of values the SPSC consumer has moved out of their slots
SpscMoved == Len(s_popped) + (IF s_cons.pc = "publish" THEN 1 ELSE 0)

\* C32 (SPSC slot exclusion): the producer is never about to write the slot
\* the consumer is about to read; the producer writes a slot only after the
\* value it held a lap earlier has been moved out; the consumer moves a value
\* out of a slot only after the push that wrote it has stored it, and finds
\* that push's value there.
C32_SpscSlotExclusion ==
    /\ [](~(/\ s_prod.pc = "store"
            /\ s_cons.pc = "move"
            /\ s_prod.writeIdx = s_cons.readIdx))
    /\ [][(s_prod.pc = "store" /\ s_prod'.pc = "publish") =>
             /\ s_prod.i - SpscCapacity < SpscMoved
             /\ s_prod.writeIdx = Mask(s_prod.i, SpscCapacity)
             /\ ~(s_cons.pc \in {"move", "publish"}
                    /\ s_cons.readIdx = s_prod.writeIdx)]_vars
    /\ [][(s_cons.pc = "move" /\ s_cons'.pc = "publish") =>
             /\ Len(s_popped) < s_prod.i + (IF s_prod.pc = "publish" THEN 1 ELSE 0)
             /\ s_cons.readIdx = Mask(Len(s_popped), SpscCapacity)
             /\ s_items[s_cons.readIdx] = Len(s_popped)
             /\ s_cons'.item = Len(s_popped)]_vars

\* C32 witness: after the ring has wrapped, the producer is about to write
\* one slot while the consumer is about to read another
C32_Witness ==
    /\ s_prod.pc = "store"
    /\ s_cons.pc = "move"
    /\ s_prod.i > SpscCapacity
    /\ s_prod.writeIdx # s_cons.readIdx

\* C33 (MPSC cursor bounds): in every reachable state
\* tail <= head <= tail + capacity.
C33_MpscCursorBounds ==
    /\ m_tail <= m_head
    /\ m_head <= m_tail + MpscCapacity

\* C34 (MPSC size under concurrency): a value size() has returned lies
\* between 0 and capacity, with pushes and pops running between its load of
\* head and its load of tail, and full() and empty() computed from it are not
\* both true.
C34_MpscSizeInRange ==
    m_obs.pc = "idle" =>
        /\ m_obs.size \in 0..MpscCapacity
        /\ ~(MpscFull(m_obs.size) /\ MpscEmpty(m_obs.size))

\* no pop has taken effect: none has returned true and none has released its
\* cell
MpscNeverPopped == m_popped = <<>> /\ m_cons.pc # "storeTail"

\* C35, first half (MPSC accepts capacity values): while no pop has taken
\* effect, a push returns false exactly when the position it loaded is
\* capacity, so the pushes that claim positions 0 .. capacity-1 return true
\* and every further push returns false.
C35_MpscFirstCapacityPushes ==
    /\ [](MpscNeverPopped =>
            /\ m_head <= MpscCapacity
            /\ Len(m_pushed) + Cardinality(MpscInFlight) = m_head)
    /\ [][\A p \in MpscProducers :
            (MpscNeverPopped /\ m_prod[p].pc = "loadSeq"
                /\ m_prod'[p] # m_prod[p]) =>
                (m_prod'[p].ret = "false" <=> m_prod[p].pos = MpscCapacity)]_vars

\* C35 (MPSC usable slots): the first half, and in every state full() holds
\* exactly when size() is capacity.
C35_MpscAllSlotsUsable ==
    /\ C35_MpscFirstCapacityPushes
    /\ [](MpscFull(MpscSize(m_head, m_tail))
             <=> MpscSize(m_head, m_tail) = MpscCapacity)

\* consumer handle c has been lapped: the slot at its read index holds a
\* later version than the one the handle expects, and the handle is not past
\* its version check
SpmcLost(c) ==
    /\ q_cons[c].made
    /\ q_cons[c].pc \in {"idle", "checkVersion"}
    /\ q_items[q_cons[c].lReadIdx].version > q_cons[c].lVersion

\* C36 (SPMC Overlapped is sticky): a pop that raises Overlapped leaves the
\* handle's read index, expected version and output argument as they were
\* and the handle lapped; a lapped handle stays lapped, and none of its pops
\* returns true, until respawn resynchronises it in the handler of the
\* exception.
C36_SpmcOverlappedSticks ==
    [][\A c \in SpmcConsumers :
          /\ (q_cons[c].ret # "overlapped" /\ q_cons'[c].ret = "overlapped") =>
                /\ q_cons'[c].lReadIdx = q_cons[c].lReadIdx
                /\ q_cons'[c].lVersion = q_cons[c].lVersion
                /\ q_cons'[c].item = q_cons[c].item
                /\ SpmcLost(c)'
          /\ SpmcLost(c) =>
                \/ /\ SpmcLost(c)'
                   /\ ~SpmcPopReturns(c, "true")
                   /\ q_cons'[c].item = q_cons[c].item
                \/ /\ q_cons[c].ret = "overlapped"
                   /\ q_cons'[c].ret = "none"
                   /\ q_cons'[c].lReadIdx = q_mReadIndex
                   /\ q_cons'[c].lVersion = q_prod.lVersion]_vars

\* C36 witness: a handle that raised Overlapped and was never respawned has
\* called pop again, which returned false
C36_Witness ==
    \E c \in SpmcConsumers :
        /\ SpmcLost(c)
        /\ q_hist[c].overlapped
        /\ q_hist[c].base = -1
        /\ q_cons[c].ret = "false"

SpmcPosition(c) == q_cons[c].lVersion * SpmcCapacity + q_cons[c].lReadIdx

\* number of pushes whose slot write has completed
SpmcWritten == q_prod.n + (IF q_prod.pc = "publish" THEN 1 ELSE 0)

\* C38 (SPMC consumer never ahead): the absolute position of a consumer
\* handle never exceeds the number of pushes whose slot write has completed;
\* a pop that goes on to read a slot does so at a position whose push has
\* completed, and a pop that returns true delivers a value the producer
\* stored into that slot, for that position or a later lap.
C38_SpmcNeverAhead ==
    /\ [](\A c \in SpmcConsumers :
            q_cons[c].made => SpmcPosition(c) <= SpmcWritten)
    /\ [][\A c \in SpmcConsumers :
            /\ (q_cons[c].pc = "idle" /\ q_cons'[c].pc = "checkVersion") =>
                  /\ SpmcPosition(c) < q_prod.n
                  /\ SpmcLastPush(q_cons[c].lReadIdx) >= SpmcPosition(c)
            /\ SpmcPopReturns(c, "true") =>
                  /\ q_cons'[c].item % SpmcCapacity = q_cons[c].lReadIdx
                  /\ q_cons'[c].item >= SpmcPosition(c)
                  /\ q_cons'[c].item <= q_prod.n
                  /\ q_cons'[c].item < SpmcBegun]_vars

\* C38 witness: a consumer has caught up with the producer on the second
\* lap: it has just popped the last value pushed and stands at position 3
C38_Witness ==
    \E c \in SpmcConsumers :
        /\ q_cons[c].ret = "true"
        /\ q_cons[c].item = 2
        /\ SpmcPosition(c) = 3
        /\ q_prod.n = 3
        /\ q_prod.pc = "idle"

\* the shared state of the MPSC queue
MpscShared == <<m_head, m_tail, m_sequence, m_value>>

\* C39 (MPSC failed calls change nothing): a push returns false only from
\* its claim loop, and no step of a push before its successful
\* compare-and-swap changes head, tail or any cell's sequence or value; a
\* pop returns false only from its sequence test, and no step of a pop up to
\* that test changes head, tail, any cell or the caller's variable.
C39_MpscFalseFrame ==
    [][/\ \A p \in MpscProducers :
            /\ (m_prod[p].ret # "false" /\ m_prod'[p].ret = "false") =>
                  /\ m_prod[p].pc = "loadSeq"
                  /\ m_prod'[p].pc = "idle"
                  /\ m_prod'[p].i = m_prod[p].i
            /\ (m_prod'[p] # m_prod[p]
                   /\ m_prod[p].pc \in {"idle", "loadSeq", "cas", "reload"}
                   /\ m_prod'[p].pc # "storeValue") =>
                  /\ MpscShared' = MpscShared
                  /\ m_pushed' = m_pushed
       /\ (m_cons.ret # "false" /\ m_cons'.ret = "false") =>
             /\ m_cons.pc = "loadSeq"
             /\ m_cons'.pc = "idle"
       /\ (m_cons' # m_cons /\ m_cons.pc \in {"idle", "loadSeq"}) =>
             /\ MpscShared' = MpscShared
             /\ m_cons'.out = m_cons.out
             /\ m_popped' = m_popped]_vars

\* C39 witness: a push has returned false on the full queue and, later, a pop
\* has returned false on the emptied queue, the caller's variable still
\* holding the last value popped
C39_Witness ==
    /\ \E p \in MpscProducers : m_prod[p].pc = "idle" /\ m_prod[p].ret = "false"
    /\ m_cons.pc = "idle"
    /\ m_cons.ret = "false"
    /\ Len(m_popped) >= 1
    /\ m_cons.out = m_popped[Len(m_popped)]
    /\ m_cons.out # m_value[Mask(m_tail, MpscCapacity)]

====
